---- MODULE Spec2Model ----
\* Model of backend/main.py: the POST /generate handler, its streaming
\* generator (token relay, keyword extraction, image embedding) and the
\* Pexels image lookup.  Text is a sequence of one-character strings.
EXTENDS Integers, Sequences, FiniteSets, TLC

\* ---------------------------------------------------------------- bounds
\* Largest number of chunks the model provider delivers on one stream.
MaxDeltas == 5

\* ---------------------------------------------------------------- inputs
\* request.prompt values: empty, blank, one word, a word with an
\* underscore, two words, four words.
Prompts ==
  { <<>>, <<" ">>, <<"k">>, <<"k", "_", "j">>, <<" ", "k", " ", " ", "j">>,
    <<"k", " ", "j", " ", "K", " ", "k">> }

\* chunk.choices[0].delta.content values; <<>> stands for None and "".
Deltas ==
  { <<>>, <<"a">>, <<" ", "\n">>, <<"a", "\n", "\n">> }

\* str(e) of the exceptions the providers raise.
Errors == { <<>>, <<"e">> }

\* Values of a keyword list item and of the "keywords" entry of the keyword
\* response: a str item, a non-str item; a list, a non-list number.
StrItem(s) == [t |-> "str", s |-> s]
IntItem == [t |-> "int", s |-> <<>>]
ListValue(items) == [t |-> "list", items |-> items, n |-> 0]
IntValue(n) == [t |-> "int", items |-> <<>>, n |-> n]

KeywordValues ==
  { ListValue(<<>>),
    ListValue(<<StrItem(<<"k">>)>>),
    ListValue(<<StrItem(<<"k", "_", "j">>), StrItem(<<"j">>)>>),
    ListValue(<<StrItem(<<"j">>), StrItem(<<"k">>), StrItem(<<"K">>)>>),
    ListValue(<<IntItem>>),
    IntValue(0), IntValue(5) }

\* What fetch_single_image returns when the request is made: None and ""
\* are both falsy at the caller, modelled as the empty text.
NoUrl == <<>>
Urls == { <<"u">>, <<"v">> }

\* ------------------------------------------------------------ constants
max_images_to_insert == 2

ErrorHead ==
  << 
        "\n", "*", "*", "E", "r", "r", "o", "r", ":", "*", "*", " ",
         "A", "n", " ", "i", "s", "s", "u", "e", " ", "o", "c", "c",
         "u", "r", "r", "e", "d", " ", "d", "u", "r", "i", "n", "g",
         " ", "b", "l", "o", "g", " ", "o", "r", " ", "i", "m", "a",
         "g", "e", " ", "g", "e", "n", "e", "r", "a", "t", "i", "o",
         "n", ".", " ", "D", "e", "t", "a", "i", "l", "s", ":", " " >>

\* ---------------------------------------------------------------- state
VARIABLES
  pc,                  \* position of the handler / generator
  PEXELS_API_KEY,      \* TRUE when the credential is set
  user_prompt,
  responses,           \* HTTP responses returned by generate
  chunks,              \* chunks yielded by stream_generator, in order
  stream,              \* the model provider's stream
  delivered,           \* deltas the provider delivered, in order
  modelCalls,          \* litellm.acompletion calls made, in order
  keyword_response,    \* outcome of the keyword call
  full_blog_text,
  image_keywords,
  paragraphs,
  embedded_blog_parts,
  image_count,
  i,                   \* number of paragraphs the for loop has handled
  imageCalls,          \* fetch_single_image calls: query and result
  pexelsCalls          \* requests.get calls to the Pexels API

vars == << pc, PEXELS_API_KEY, user_prompt, responses, chunks, stream,
           delivered, modelCalls, keyword_response, full_blog_text,
           image_keywords, paragraphs, embedded_blog_parts, image_count, i,
           imageCalls, pexelsCalls >>

\* -------------------------------------------------------------- helpers
RECURSIVE Concat(_)
Concat(ss) == IF ss = <<>> THEN <<>> ELSE Head(ss) \o Concat(Tail(ss))

NonEmpty(ss) == SelectSeq(ss, LAMBDA d : d # <<>>)

Max(S) == CHOOSE x \in S : \A y \in S : y <= x

\* \s of the regular expression and the separators of str.split().
IsSpace(c) == c \in {" ", "\n"}

\* End of the match of \n\s*\n that starts at p, 0 when there is none: \s*
\* is greedy, so the match runs to the last newline of the whitespace run.
MatchEnd(s, p) ==
  LET ends == { q \in (p + 1)..Len(s) :
                  s[q] = "\n" /\ \A r \in (p + 1)..(q - 1) : IsSpace(s[r]) }
  IN IF s[p] = "\n" /\ ends # {} THEN Max(ends) ELSE 0

\* re.split(r'\n\s*\n', s)
RECURSIVE ReSplit(_)
ReSplit(s) ==
  LET starts == { p \in 1..Len(s) : MatchEnd(s, p) # 0 }
  IN IF starts = {} THEN << s >>
     ELSE LET p == CHOOSE x \in starts : \A y \in starts : x <= y
          IN << SubSeq(s, 1, p - 1) >>
               \o ReSplit(SubSeq(s, MatchEnd(s, p) + 1, Len(s)))

\* s.split(): the maximal runs of non-whitespace characters.
RECURSIVE Split(_)
Split(s) ==
  IF s = <<>> THEN <<>>
  ELSE IF IsSpace(s[1]) THEN Split(Tail(s))
  ELSE LET stops == { q \in 1..Len(s) : IsSpace(s[q]) }
           e == IF stops = {} THEN Len(s) + 1
                ELSE CHOOSE x \in stops : \A y \in stops : x <= y
       IN << SubSeq(s, 1, e - 1) >> \o Split(SubSeq(s, e, Len(s)))

\* seq[:n]
Take(seq, n) == SubSeq(seq, 1, IF n < Len(seq) THEN n ELSE Len(seq))

\* s[n:]
SliceFrom(s, n) == SubSeq(s, n + 1, Len(s))

\* sep.join(parts)
RECURSIVE Join(_, _)
Join(sep, parts) ==
  IF parts = <<>> THEN <<>>
  ELSE IF Len(parts) = 1 THEN parts[1]
  ELSE parts[1] \o sep \o Join(sep, Tail(parts))

\* s.replace("_", " ")
ReplaceUnderscore(s) == [ k \in 1..Len(s) |-> IF s[k] = "_" THEN " " ELSE s[k] ]

IsCased(c) == c \in {"k", "j", "K", "J"}
Upper(c) == IF c = "k" THEN "K" ELSE IF c = "j" THEN "J" ELSE c
Lower(c) == IF c = "K" THEN "k" ELSE IF c = "J" THEN "j" ELSE c

\* s.title(): a cased character is upper-cased when the character before it
\* is not cased, lower-cased otherwise.
Title(s) ==
  [ k \in 1..Len(s) |->
      IF k > 1 /\ IsCased(s[k - 1]) THEN Lower(s[k]) ELSE Upper(s[k]) ]

\* f'\n\n![{keyword.replace("_", " ").title()}]({image_url})\n\n'
ImageMarkdown(keyword, image_url) ==
  <<"\n", "\n", "!", "[">> \o Title(ReplaceUnderscore(keyword))
     \o <<"]", "(">> \o image_url \o <<")", "\n", "\n">>

\* f'\n**Error:** An issue occurred ... Details: {str(e)}'
error_message(e) == ErrorHead \o e

\* ------------------------------------------------- fetch_single_image
\* `if not PEXELS_API_KEY: return None` happens before any request.
PexelsRequested(key) == key

\* The values fetch_single_image can return: every exception is caught and
\* turned into None.
FetchResults(key) == IF PexelsRequested(key) THEN Urls \cup {NoUrl} ELSE {NoUrl}

\* ------------------------------------------------------------ generate
\* Variant of PromptRejected: the check is missing.
PromptNeverRejected(p) == FALSE

\* `if not user_prompt`
PromptRejected(p) == p = <<>>

BadRequest == [status |-> 400, body |-> "{\"error\": \"No prompt provided\"}"]
Streaming == [status |-> 200, body |-> "text/plain stream"]

Init ==
  /\ pc = "idle"
  /\ PEXELS_API_KEY \in BOOLEAN
  /\ user_prompt = <<>>
  /\ responses = <<>>
  /\ chunks = <<>>
  /\ stream = "unopened"
  /\ delivered = <<>>
  /\ modelCalls = <<>>
  /\ keyword_response = "none"
  /\ full_blog_text = <<>>
  /\ image_keywords = ListValue(<<>>)
  /\ paragraphs = <<>>
  /\ embedded_blog_parts = <<>>
  /\ image_count = 0
  /\ i = 0
  /\ imageCalls = <<>>
  /\ pexelsCalls = <<>>

\* POST /generate: the 400 response, or the streaming response whose
\* generator starts with an empty accumulator and keyword list.
generate ==
  /\ pc = "idle"
  /\ \E p \in Prompts :
       /\ user_prompt' = p
       /\ IF PromptRejected(p)
          THEN /\ responses' = Append(responses, BadRequest)
               /\ pc' = "done"
          ELSE /\ responses' = Append(responses, Streaming)
               /\ pc' = "open"
  /\ UNCHANGED << PEXELS_API_KEY, chunks, stream, delivered, modelCalls,
                  keyword_response, full_blog_text, image_keywords,
                  paragraphs, embedded_blog_parts, image_count, i,
                  imageCalls, pexelsCalls >>

\* ----------------------------------------------------- stream_generator
\* The outer `except Exception`: one error chunk, then return.
Fail(e) ==
  /\ chunks' = Append(chunks, error_message(e))
  /\ pc' = "done"

\* litellm.acompletion(..., stream=True) returns the stream.
OpenStream ==
  /\ pc = "open"
  /\ modelCalls' = Append(modelCalls, "blog")
  /\ stream' = "open"
  /\ pc' = "streaming"
  /\ UNCHANGED << PEXELS_API_KEY, user_prompt, responses, chunks, delivered,
                  keyword_response, full_blog_text, image_keywords,
                  paragraphs, embedded_blog_parts, image_count, i,
                  imageCalls, pexelsCalls >>

\* litellm.acompletion(..., stream=True) raises (all fallbacks failed).
OpenFails ==
  /\ pc = "open"
  /\ modelCalls' = Append(modelCalls, "blog")
  /\ stream' = "refused"
  /\ \E e \in Errors : Fail(e)
  /\ UNCHANGED << PEXELS_API_KEY, user_prompt, responses, delivered,
                  keyword_response, full_blog_text, image_keywords,
                  paragraphs, embedded_blog_parts, image_count, i,
                  imageCalls, pexelsCalls >>

\* Variant of Accumulate: the token is put in front.
AccumulateInFront(text, token) == token \o text

\* full_blog_text += token
Accumulate(text, token) == text \o token

\* Variant of NextChunk: the image stage may start inside the loop.
NextChunkThenImages ==
  /\ pc = "streaming"
  /\ Len(delivered) < MaxDeltas
  /\ \E token \in Deltas :
       /\ delivered' = Append(delivered, token)
       /\ IF token # <<>>
          THEN /\ full_blog_text' = Accumulate(full_blog_text, token)
               /\ chunks' = Append(chunks, token)
          ELSE UNCHANGED << full_blog_text, chunks >>
  /\ pc' \in {"streaming", "keywords"}
  /\ UNCHANGED << PEXELS_API_KEY, user_prompt, responses, stream,
                  modelCalls, keyword_response, image_keywords, paragraphs,
                  embedded_blog_parts, image_count, i, imageCalls,
                  pexelsCalls >>

\* One iteration of `async for chunk in response_stream`.
NextChunk ==
  /\ pc = "streaming"
  /\ Len(delivered) < MaxDeltas
  /\ \E token \in Deltas :
       /\ delivered' = Append(delivered, token)
       /\ IF token # <<>>
          THEN /\ full_blog_text' = Accumulate(full_blog_text, token)
               /\ chunks' = Append(chunks, token)
          ELSE UNCHANGED << full_blog_text, chunks >>
  /\ UNCHANGED << pc, PEXELS_API_KEY, user_prompt, responses, stream,
                  modelCalls, keyword_response, image_keywords, paragraphs,
                  embedded_blog_parts, image_count, i, imageCalls,
                  pexelsCalls >>

\* Variant of ChunkFails: the generator goes on after the error chunk.
ChunkFailsThenContinues ==
  /\ pc = "streaming"
  /\ stream' = "broken"
  /\ \E e \in Errors : chunks' = Append(chunks, error_message(e))
  /\ pc' = "keywords"
  /\ UNCHANGED << PEXELS_API_KEY, user_prompt, responses, delivered,
                  modelCalls, keyword_response, full_blog_text,
                  image_keywords, paragraphs, embedded_blog_parts,
                  image_count, i, imageCalls, pexelsCalls >>

\* The stream raises, or a chunk has no choices[0].delta.
ChunkFails ==
  /\ pc = "streaming"
  /\ stream' = "broken"
  /\ \E e \in Errors : Fail(e)
  /\ UNCHANGED << PEXELS_API_KEY, user_prompt, responses, delivered,
                  modelCalls, keyword_response, full_blog_text,
                  image_keywords, paragraphs, embedded_blog_parts,
                  image_count, i, imageCalls, pexelsCalls >>

\* The stream is exhausted: the `async for` loop ends.
StreamEnds ==
  /\ pc = "streaming"
  /\ stream' = "ended"
  /\ pc' = "keywords"
  /\ UNCHANGED << PEXELS_API_KEY, user_prompt, responses, chunks, delivered,
                  modelCalls, keyword_response, full_blog_text,
                  image_keywords, paragraphs, embedded_blog_parts,
                  image_count, i, imageCalls, pexelsCalls >>

\* Variant of Truthy: the branch is always taken.
AlwaysTruthy(v) == TRUE

\* `if image_keywords:`
Truthy(v) == IF v.t = "list" THEN v.items # <<>> ELSE v.n # 0

\* user_prompt.split()[:3]
FallbackKeywords(prompt) ==
  LET words == Take(Split(prompt), 3)
  IN ListValue([ k \in 1..Len(words) |-> StrItem(words[k]) ])

\* From the keyword list to the `if image_keywords:` branch: the loop set-up
\* or the end of the generator.
StartEmbedding(kws) ==
  /\ image_keywords' = kws
  /\ IF Truthy(kws)
     THEN /\ paragraphs' = ReSplit(full_blog_text)
          /\ embedded_blog_parts' = <<>>
          /\ image_count' = 0
          /\ i' = 0
          /\ pc' = "embed"
     ELSE /\ pc' = "done"
          /\ UNCHANGED << paragraphs, embedded_blog_parts, image_count, i >>

\* The keyword call returns and .get("keywords", []) yields a value.
KeywordsReturned ==
  /\ pc = "keywords"
  /\ modelCalls' = Append(modelCalls, "keywords")
  /\ keyword_response' = "returned"
  /\ \E v \in KeywordValues : StartEmbedding(v)
  /\ UNCHANGED << PEXELS_API_KEY, user_prompt, responses, chunks, stream,
                  delivered, full_blog_text, imageCalls, pexelsCalls >>

\* Variant of KeywordsFail: no inner try, the outer handler ends the stream.
KeywordsFailFatal ==
  /\ pc = "keywords"
  /\ modelCalls' = Append(modelCalls, "keywords")
  /\ keyword_response' = "raised"
  /\ \E e \in Errors : Fail(e)
  /\ UNCHANGED << PEXELS_API_KEY, user_prompt, responses, stream, delivered,
                  full_blog_text, image_keywords, paragraphs,
                  embedded_blog_parts, image_count, i, imageCalls,
                  pexelsCalls >>

\* The keyword call raises, or its content has no .get: the inner except
\* falls back to the first three words of the prompt.
KeywordsFail ==
  /\ pc = "keywords"
  /\ modelCalls' = Append(modelCalls, "keywords")
  /\ keyword_response' = "raised"
  /\ StartEmbedding(FallbackKeywords(user_prompt))
  /\ UNCHANGED << PEXELS_API_KEY, user_prompt, responses, chunks, stream,
                  delivered, full_blog_text, imageCalls, pexelsCalls >>

\* The conjuncts of line 154 before len() is evaluated.
CondReached ==
  /\ image_count < max_images_to_insert
  /\ (i + 1) % 3 = 0
  /\ Truthy(image_keywords)

\* len(image_keywords) raises TypeError on a number.
LenRaises == CondReached /\ image_keywords.t # "list"

WantsImage ==
  /\ CondReached
  /\ image_keywords.t = "list"
  /\ Len(image_keywords.items) > image_count

\* Variant of KeywordFor: always the first keyword.
KeywordAlwaysFirst(kws, count) == kws.items[1]

\* image_keywords[image_count]
KeywordFor(kws, count) == kws.items[count + 1]

\* A loop iteration that only appends the paragraph.
EmbedSkip ==
  /\ pc = "embed"
  /\ i < Len(paragraphs)
  /\ ~LenRaises
  /\ ~WantsImage
  /\ embedded_blog_parts' = Append(embedded_blog_parts, paragraphs[i + 1])
  /\ i' = i + 1
  /\ UNCHANGED << pc, PEXELS_API_KEY, user_prompt, responses, chunks, stream,
                  delivered, modelCalls, keyword_response, full_blog_text,
                  image_keywords, paragraphs, image_count, imageCalls,
                  pexelsCalls >>

\* A loop iteration that looks an image up.  A non-str keyword with a URL
\* raises at keyword_for_image.replace.
EmbedFetch ==
  /\ pc = "embed"
  /\ i < Len(paragraphs)
  /\ WantsImage
  /\ LET keyword_for_image == KeywordFor(image_keywords, image_count)
         withParagraph == Append(embedded_blog_parts, paragraphs[i + 1])
     IN /\ pexelsCalls' = IF PexelsRequested(PEXELS_API_KEY)
                          THEN Append(pexelsCalls, keyword_for_image)
                          ELSE pexelsCalls
        /\ \E image_url \in FetchResults(PEXELS_API_KEY) :
             /\ imageCalls' = Append(imageCalls,
                  [query |-> keyword_for_image, url |-> image_url])
             /\ IF image_url = NoUrl
                THEN /\ embedded_blog_parts' = withParagraph
                     /\ i' = i + 1
                     /\ UNCHANGED << pc, chunks, image_count >>
                ELSE IF keyword_for_image.t = "str"
                THEN /\ embedded_blog_parts' = Append(withParagraph,
                          ImageMarkdown(keyword_for_image.s, image_url))
                     /\ image_count' = image_count + 1
                     /\ i' = i + 1
                     /\ UNCHANGED << pc, chunks >>
                ELSE /\ embedded_blog_parts' = withParagraph
                     /\ \E e \in Errors : Fail(e)
                     /\ UNCHANGED << i, image_count >>
  /\ UNCHANGED << PEXELS_API_KEY, user_prompt, responses, stream, delivered,
                  modelCalls, keyword_response, full_blog_text,
                  image_keywords, paragraphs >>

\* A loop iteration whose condition raises.
EmbedLenRaises ==
  /\ pc = "embed"
  /\ i < Len(paragraphs)
  /\ LenRaises
  /\ embedded_blog_parts' = Append(embedded_blog_parts, paragraphs[i + 1])
  /\ \E e \in Errors : Fail(e)
  /\ UNCHANGED << PEXELS_API_KEY, user_prompt, responses, stream, delivered,
                  modelCalls, keyword_response, full_blog_text,
                  image_keywords, paragraphs, image_count, i, imageCalls,
                  pexelsCalls >>

\* Variant of FinalChunk: the whole content is yielded again.
WholeFinalContent(final_content_with_images, text) == final_content_with_images

\* final_content_with_images[len(full_blog_text):]
FinalChunk(final_content_with_images, text) ==
  SliceFrom(final_content_with_images, Len(text))

\* After the loop: join the parts and yield what lies past the blog text.
YieldFinal ==
  /\ pc = "embed"
  /\ i = Len(paragraphs)
  /\ chunks' = Append(chunks,
       FinalChunk(Join(<<"\n", "\n">>, embedded_blog_parts), full_blog_text))
  /\ pc' = "done"
  /\ UNCHANGED << PEXELS_API_KEY, user_prompt, responses, stream, delivered,
                  modelCalls, keyword_response, full_blog_text,
                  image_keywords, paragraphs, embedded_blog_parts,
                  image_count, i, imageCalls, pexelsCalls >>

Next ==
  \/ generate
  \/ OpenStream
  \/ OpenFails
  \/ NextChunk
  \/ ChunkFails
  \/ StreamEnds
  \/ KeywordsReturned
  \/ KeywordsFail
  \/ EmbedSkip
  \/ EmbedFetch
  \/ EmbedLenRaises
  \/ YieldFinal

Spec == Init /\ [][Next]_vars

TypeOK ==
  /\ pc \in {"idle", "open", "streaming", "keywords", "embed", "done"}
  /\ Len(delivered) <= MaxDeltas

\* =============================================================== claims
TokenChunks == NonEmpty(delivered)

HasErrorPrefix(c) ==
  Len(c) >= Len(ErrorHead) /\ SubSeq(c, 1, Len(ErrorHead)) = ErrorHead

ErrorChunks == SelectSeq(chunks, HasErrorPrefix)

\* The markers of the documented final chunk, each taken as one symbol.
IsSentinelChunk(c) ==
  /\ Len(c) >= 4
  /\ c[1] = "<!--IMAGE_JSON_START-->" /\ c[2] = "["
  /\ c[Len(c) - 1] = "]" /\ c[Len(c)] = "<!--IMAGE_JSON_END-->"

IsEmptySentinelChunk(c) == IsSentinelChunk(c) /\ Len(c) = 4

\* A keyword value that is an empty list or the number 0.
NoKeywords(v) == v.items = <<>> /\ v.n = 0

\* A keyword list whose items are all strings.
WellTyped(v) ==
  v.t = "list" /\ \A k \in 1..Len(v.items) : v.items[k].t = "str"

\* A part of embedded_blog_parts that is image markdown: no paragraph of
\* re.split starts with a blank line.
IsMarkdown(part) == Len(part) >= 2 /\ part[1] = "\n" /\ part[2] = "\n"

MarkdownParts == SelectSeq(embedded_blog_parts, IsMarkdown)

Found(call) == call.url # NoUrl

\* Number of lookups among the first n that returned a URL.
Successes(n) == Cardinality({ k \in 1..n : Found(imageCalls[k]) })

Min(a, b) == IF a < b THEN a ELSE b

\* C1: an empty prompt gets exactly one 400 response with the documented
\* body; no model call, no image call and no stream chunk ever happens.
C1_EmptyPromptRejected ==
  (pc # "idle" /\ user_prompt = <<>>) =>
     /\ responses = << BadRequest >>
     /\ pc = "done"
     /\ modelCalls = <<>> /\ imageCalls = <<>> /\ pexelsCalls = <<>>
     /\ chunks = <<>> /\ stream = "unopened"

C1_Witness == pc = "done" /\ user_prompt = <<>> /\ responses = << BadRequest >>

\* C2: the token chunks emitted are exactly the non-empty deltas in arrival
\* order, and the accumulator is the concatenation of the chunks emitted;
\* while streaming nothing else has been emitted.
C2_TokensInArrivalOrder ==
  /\ Len(chunks) >= Len(TokenChunks)
  /\ SubSeq(chunks, 1, Len(TokenChunks)) = TokenChunks
  /\ full_blog_text = Concat(SubSeq(chunks, 1, Len(TokenChunks)))
  /\ pc = "streaming" => chunks = TokenChunks

C2_Witness ==
  /\ pc = "streaming"
  /\ Len(chunks) >= 3 /\ chunks[1] # chunks[2]
  /\ Len(delivered) > Len(chunks)

\* C3: every chunk emitted is a non-empty string, except a sentinel-wrapped
\* chunk carrying an empty URL list.
C3_AllChunksNonEmpty ==
  \A n \in 1..Len(chunks) : chunks[n] # <<>> \/ IsEmptySentinelChunk(chunks[n])

\* C4: when the model provider fails at opening or during streaming, the
\* chunks are the tokens delivered so far followed by exactly one error
\* chunk, which is last; no keyword call and no image call is made; a
\* failure at opening leaves the error chunk as the only chunk.
C4_ModelFailureEndsStream ==
  stream \in {"refused", "broken"} =>
     /\ pc = "done"
     /\ Len(chunks) = Len(TokenChunks) + 1
     /\ SubSeq(chunks, 1, Len(TokenChunks)) = TokenChunks
     /\ HasErrorPrefix(chunks[Len(chunks)])
     /\ Len(ErrorChunks) = 1
     /\ modelCalls = << "blog" >> /\ keyword_response = "none"
     /\ imageCalls = <<>> /\ pexelsCalls = <<>>
     /\ stream = "refused" => Len(chunks) = 1

C4_Witness ==
  /\ stream = "broken" /\ pc = "done"
  /\ Len(chunks) >= 3 /\ HasErrorPrefix(chunks[Len(chunks)])

C6_NoImagesWhenExtractionFails ==
  keyword_response = "raised" =>
     /\ imageCalls = <<>>
     /\ chunks = TokenChunks

\* C6 amended: when the keyword list is empty (the keyword call returned no
\* keywords, or it failed and the prompt has no word) no image is attempted
\* and nothing is emitted after the blog text; a failed keyword call gives
\* an empty list only for a prompt without words.
C6_NoImagesWhenNoKeywords ==
  /\ (keyword_response # "none" /\ NoKeywords(image_keywords)) =>
        /\ pc = "done"
        /\ imageCalls = <<>> /\ pexelsCalls = <<>>
        /\ chunks = TokenChunks
  /\ keyword_response = "raised" =>
        (~NoKeywords(image_keywords)
           <=> \E k \in 1..Len(user_prompt) : ~IsSpace(user_prompt[k]))

C6_Witness ==
  /\ keyword_response = "raised" /\ NoKeywords(image_keywords)
  /\ pc = "done" /\ Len(ReSplit(full_blog_text)) >= 3

C9_ImagesAfterDrain ==
  [][ /\ imageCalls' # imageCalls =>
           (stream = "ended" /\ chunks = TokenChunks /\ delivered' = delivered)
      /\ imageCalls # <<>> =>
           (delivered' = delivered /\ full_blog_text' = full_blog_text
              /\ stream' = "ended") ]_vars

C9_Witness ==
  /\ pc = "done" /\ Len(imageCalls) = 2 /\ Len(TokenChunks) >= 5

\* C10: the chunk emitted after image embedding is exactly the
\* concatenation of the image markdown blocks that were inserted.
C10_OnlyNewMarkdown ==
  (pc = "done" /\ stream = "ended" /\ ErrorChunks = <<>>
     /\ Len(chunks) = Len(TokenChunks) + 1) =>
     chunks[Len(chunks)] = Concat(MarkdownParts)

====
